---- MODULE Spec2Model ----
(***************************************************************************)
(* Model of the elysia-bun-template repository.                            *)
(*                                                                         *)
(* Two programs are modelled:                                              *)
(*   - the migration-tool configuration module (drizzle.config.ts), which  *)
(*     resolves the database connection string from the environment;       *)
(*     specification SpecConfig;                                           *)
(*   - the HTTP server entry point (src/index.ts), its start-up sequence   *)
(*     and its request handlers; specification Spec.                       *)
(*                                                                         *)
(* Strings the code inspects or concatenates are sequences of characters.  *)
(***************************************************************************)
EXTENDS Integers, Sequences, FiniteSets, TLC

\* ------------------------------------------------------------------ bounds
\* Longest environment-variable value drawn.
MaxLen == 2
\* Number of HTTP requests a behaviour handles.
MaxReq == 2
\* Number of distinct rows the external writer may put in the users table.
MaxRows == 2

\* --------------------------------------------------------------- variables
VARIABLES
    env,        \* Bun.env: the two optional variables
    url,        \* drizzle.config.ts: `let url`
    cfgPc,      \* position of the configuration module's evaluation
    config,     \* drizzle.config.ts: the exported configuration object
    pc,         \* position of the entry point's top-level evaluation
    plugins,    \* plugins registered on the application, in order
    routes,     \* routes registered on the application, in order
    port,       \* port the server is bound to
    conns,      \* database connection objects constructed so far
    db,         \* the binding `db` imported from ./db
    table,      \* rows of the users table
    dbUp,       \* whether the database answers queries
    req,        \* the requests: their route and position
    resp,       \* the response sent to each request
    queries,    \* read-all queries issued for each request
    writtenInFlight \* history, kept in SpecWriter: the table was written
                \* while the request's query was pending

cfgVars == <<env, url, cfgPc, config>>
appVars == <<pc, plugins, routes, port, conns, db>>
dbVars  == <<table, dbUp>>
reqVars == <<req, resp, queries>>
vars == <<env, url, cfgPc, config, pc, plugins, routes, port, conns, db,
          table, dbUp, req, resp, queries, writtenInFlight>>

\* ------------------------------------------------------------------ strings
\* Characters environment values are drawn from; "?" makes a URL that
\* already carries a query string possible.
Chars == {"a", "?"}

StringsUpTo(n) == UNION {[1..k -> Chars] : k \in 0..n}

\* "file:local.db"
LocalDbUrl == <<"f", "i", "l", "e", ":", "l", "o", "c", "a", "l", ".", "d", "b">>

\* "?authToken="
AuthTokenParam == <<"?", "a", "u", "t", "h", "T", "o", "k", "e", "n", "=">>

\* -------------------------------------------------------------- environment
\* A variable that is not in the environment reads as undefined.
Undefined == [defined |-> FALSE, val |-> <<>>]

Defined(s) == [defined |-> TRUE, val |-> s]

EnvValues == {Undefined} \cup {Defined(s) : s \in StringsUpTo(MaxLen)}

Envs == [TURSO_DATABASE_URL : EnvValues, TURSO_AUTH_TOKEN : EnvValues]

\* A test for `!== undefined` in place of the truthiness test.
Truthy_definedOnly(v) == v.defined

\* JavaScript truthiness of a value read from Bun.env: undefined and the
\* empty string are falsy, every other string is truthy.
Truthy(v) == v.defined /\ Len(v.val) > 0

\* No connection string: the module has not been evaluated.
NoUrl == <<>>

\* `?authToken=${token}` appended with no token test (`undefined` would be
\* interpolated as text; here the unset token contributes its empty value).
ResolveUrl_alwaysAppend(e) ==
    IF Truthy(e.TURSO_DATABASE_URL)
    THEN e.TURSO_DATABASE_URL.val \o AuthTokenParam \o e.TURSO_AUTH_TOKEN.val
    ELSE LocalDbUrl

\* The token test hoisted out of the URL test.
ResolveUrl_tokenUnnested(e) ==
    LET base == IF Truthy(e.TURSO_DATABASE_URL)
                THEN e.TURSO_DATABASE_URL.val ELSE LocalDbUrl
    IN  IF Truthy(e.TURSO_AUTH_TOKEN)
        THEN base \o AuthTokenParam \o e.TURSO_AUTH_TOKEN.val
        ELSE base

\* The append dropped.
ResolveUrl_neverAppend(e) ==
    IF Truthy(e.TURSO_DATABASE_URL) THEN e.TURSO_DATABASE_URL.val ELSE LocalDbUrl

\* No fallback: the URL variable is read unconditionally.
ResolveUrl_noFallback(e) ==
    IF Truthy(e.TURSO_AUTH_TOKEN)
    THEN e.TURSO_DATABASE_URL.val \o AuthTokenParam \o e.TURSO_AUTH_TOKEN.val
    ELSE e.TURSO_DATABASE_URL.val

\* The token joined with "&" when the URL already carries a query string.
ResolveUrl_queryAware(e) ==
    IF Truthy(e.TURSO_DATABASE_URL)
    THEN IF Truthy(e.TURSO_AUTH_TOKEN)
         THEN IF \E i \in DOMAIN e.TURSO_DATABASE_URL.val :
                     e.TURSO_DATABASE_URL.val[i] = "?"
              THEN e.TURSO_DATABASE_URL.val \o <<"&">> \o Tail(AuthTokenParam)
                       \o e.TURSO_AUTH_TOKEN.val
              ELSE e.TURSO_DATABASE_URL.val \o AuthTokenParam \o e.TURSO_AUTH_TOKEN.val
         ELSE e.TURSO_DATABASE_URL.val
    ELSE LocalDbUrl

\* drizzle.config.ts lines 3-9.
ResolveUrl(e) ==
    IF Truthy(e.TURSO_DATABASE_URL)
    THEN IF Truthy(e.TURSO_AUTH_TOKEN)
         THEN e.TURSO_DATABASE_URL.val \o AuthTokenParam \o e.TURSO_AUTH_TOKEN.val
         ELSE e.TURSO_DATABASE_URL.val
    ELSE LocalDbUrl

\* ------------------------------------------------ configuration module
\* No configuration object: the module has not been evaluated.
NoConfig == [schema |-> "", out |-> "", dialect |-> "", dbCredentials |-> [url |-> NoUrl]]

\* The dialect picked after the kind of database: "turso" for a remote URL.
DefineConfig_dialectByUrl(u) ==
    [schema |-> "./src/db/schema.ts",
     out |-> "./drizzle",
     dialect |-> IF u = LocalDbUrl THEN "sqlite" ELSE "turso",
     dbCredentials |-> [url |-> u]]

\* drizzle.config.ts lines 11-18: the object given to defineConfig.
DefineConfig(u) ==
    [schema |-> "./src/db/schema.ts",
     out |-> "./drizzle",
     dialect |-> "sqlite",
     dbCredentials |-> [url |-> u]]

\* The url is a getter recomputed on every use instead of a value resolved
\* once.
EvalConfig_onEveryUse ==
    /\ url' = ResolveUrl(env)
    /\ config' = DefineConfig(url')
    /\ cfgPc' = "done"
    /\ UNCHANGED <<env, appVars, dbVars, reqVars, writtenInFlight>>

\* Evaluation of drizzle.config.ts: lines 3-9 resolve `url`, lines 11-18
\* export the configuration built from it.
EvalConfig ==
    /\ cfgPc = "start"
    /\ url' = ResolveUrl(env)
    /\ config' = DefineConfig(url')
    /\ cfgPc' = "done"
    /\ UNCHANGED <<env, appVars, dbVars, reqVars, writtenInFlight>>

\* The process environment is changed, before or after the module has been
\* evaluated: variable k is set to a string, or removed.
SetEnv(k, v) ==
    /\ env[k] # v
    /\ env' = [env EXCEPT ![k] = v]
    /\ UNCHANGED <<url, cfgPc, config, appVars, dbVars, reqVars, writtenInFlight>>

\* ------------------------------------------------------------- HTTP server
\* Port given to listen().
Port == 3000

\* The handler's return value for `/`.
Greeting == "Hello Elysia"

Methods == {"GET", "POST"}

\* Routes the documentation plugin serves.
DocPaths == {"/swagger", "/swagger/json"}

\* Paths requests are drawn from; "/missing" is registered by nobody.
Paths == {"/", "/users", "/missing"} \cup DocPaths

Req == 1..MaxReq

\* Rows the external writer draws from.
Rows == 1..MaxRows

NoReq == [state |-> "none", method |-> "", path |-> "", conn |-> 0]

NoResp == [status |-> 0, ctype |-> "", text |-> "", rows |-> {}]

\* The framework's mapping of a handler's outcome to a response.
TextResponse(s) == [status |-> 200, ctype |-> "text/plain", text |-> s, rows |-> {}]

JsonResponse(rs) == [status |-> 200, ctype |-> "application/json", text |-> "", rows |-> rs]

DocsResponse(p) == [status |-> 200, ctype |-> "docs", text |-> p, rows |-> {}]

ErrorResponse == [status |-> 500, ctype |-> "text/plain", text |-> "error", rows |-> {}]

NotFoundResponse == [status |-> 404, ctype |-> "text/plain", text |-> "NOT_FOUND", rows |-> {}]

Route(m, p, by) == [method |-> m, path |-> p, by |-> by]

Registered(m, p) == \E i \in DOMAIN routes : routes[i].method = m /\ routes[i].path = p

Listening == port = Port

\* db.select().from(users).all(): every row, no WHERE, no LIMIT.
SelectAll(t) == t

\* ---------------------------------------------------------------- start-up
\* ./db evaluated on import: the module constructs the connection object
\* and exports it as `db`.
CreateDb ==
    /\ conns' = conns + 1
    /\ db' = conns + 1

\* Lines 1-4: the imports are evaluated before the module body.
ImportModules ==
    /\ pc = "start"
    /\ CreateDb
    /\ pc' = "imported"
    /\ UNCHANGED <<plugins, routes, port, cfgVars, writtenInFlight, dbVars, reqVars>>

\* Line 6: new Elysia()
NewElysia ==
    /\ pc = "imported"
    /\ pc' = "constructed"
    /\ UNCHANGED <<plugins, routes, port, conns, db, cfgVars, writtenInFlight, dbVars, reqVars>>

\* The plugin left out of the chain.
UseSwagger_skipped ==
    /\ pc = "constructed"
    /\ pc' = "plugged"
    /\ UNCHANGED <<plugins, routes, port, conns, db, cfgVars, writtenInFlight, dbVars, reqVars>>

\* Line 7: .use(swagger()); the plugin registers its documentation routes.
UseSwagger ==
    /\ pc = "constructed"
    /\ plugins' = Append(plugins, "swagger")
    /\ routes' = routes \o <<Route("GET", "/swagger", "swagger"),
                             Route("GET", "/swagger/json", "swagger")>>
    /\ pc' = "plugged"
    /\ UNCHANGED <<port, conns, db, cfgVars, writtenInFlight, dbVars, reqVars>>

\* Line 8: .get("/", ...)
RegisterRoot ==
    /\ pc = "plugged"
    /\ routes' = Append(routes, Route("GET", "/", "app"))
    /\ pc' = "root"
    /\ UNCHANGED <<plugins, port, conns, db, cfgVars, writtenInFlight, dbVars, reqVars>>

\* Lines 9-11: .get("/users", ...)
RegisterUsers ==
    /\ pc = "root"
    /\ routes' = Append(routes, Route("GET", "/users", "app"))
    /\ pc' = "users"
    /\ UNCHANGED <<plugins, port, conns, db, cfgVars, writtenInFlight, dbVars, reqVars>>

\* The port chosen by the database configuration: another port when a
\* remote database is configured.
Listen_remotePort ==
    /\ pc = "users"
    /\ port' = IF Truthy(env.TURSO_DATABASE_URL) THEN Port + 1 ELSE Port
    /\ pc' = "listening"
    /\ UNCHANGED <<plugins, routes, conns, db, cfgVars, writtenInFlight, dbVars, reqVars>>

\* listen() called on the freshly constructed application, before any
\* plugin or route is registered; the chain then goes on.
Listen_first ==
    /\ pc \in {"constructed", "users"}
    /\ port' = Port
    /\ pc' = IF pc = "users" THEN "listening" ELSE pc
    /\ UNCHANGED <<plugins, routes, conns, db, cfgVars, writtenInFlight, dbVars, reqVars>>

\* Line 12: .listen(3000)
Listen ==
    /\ pc = "users"
    /\ port' = Port
    /\ pc' = "listening"
    /\ UNCHANGED <<plugins, routes, conns, db, cfgVars, writtenInFlight, dbVars, reqVars>>

\* ----------------------------------------------------------------- requests
\* A request the bound server has not yet seen.
Incoming(r) == Listening /\ req[r].state = "none"

Responded(r, m, p, rsp) ==
    /\ req' = [req EXCEPT ![r] = [state |-> "responded", method |-> m, path |-> p,
                                  conn |-> req[r].conn]]
    /\ resp' = [resp EXCEPT ![r] = rsp]

\* The routes the documentation plugin describes: it reads the
\* application's route table when its pages are requested and leaves out
\* its own routes.
Documented == {[method |-> routes[i].method, path |-> routes[i].path] :
                  i \in {j \in DOMAIN routes : routes[j].by = "app"}}

\* Requests handled one at a time: `/` waits while a query is pending.
GetRoot_serial(r) ==
    /\ Incoming(r)
    /\ \A q \in Req : req[q].state # "querying"
    /\ Registered("GET", "/")
    /\ Responded(r, "GET", "/", TextResponse(Greeting))
    /\ UNCHANGED <<queries, cfgVars, writtenInFlight, appVars, dbVars>>

\* A `/` handler that pings the database before it greets.
GetRoot_healthCheck(r) ==
    /\ Incoming(r)
    /\ Registered("GET", "/")
    /\ Responded(r, "GET", "/", IF dbUp THEN TextResponse(Greeting) ELSE ErrorResponse)
    /\ UNCHANGED <<queries, cfgVars, writtenInFlight, appVars, dbVars>>

\* A `/` handler that greets differently once another request has been seen.
GetRoot_counting(r) ==
    /\ Incoming(r)
    /\ Registered("GET", "/")
    /\ Responded(r, "GET", "/",
                 IF \E q \in Req : req[q].state # "none"
                 THEN TextResponse("Hello again") ELSE TextResponse(Greeting))
    /\ UNCHANGED <<queries, cfgVars, writtenInFlight, appVars, dbVars>>

\* Line 8: GET / -> () => "Hello Elysia"
GetRoot(r) ==
    /\ Incoming(r)
    /\ Registered("GET", "/")
    /\ Responded(r, "GET", "/", TextResponse(Greeting))
    /\ UNCHANGED <<queries, cfgVars, writtenInFlight, appVars, dbVars>>

\* A `/users` handler that opens a connection of its own for each request.
GetUsers_ownConnection(r) ==
    /\ Incoming(r)
    /\ Registered("GET", "/users")
    /\ conns' = conns + 1
    /\ req' = [req EXCEPT ![r] = [state |-> "querying", method |-> "GET",
                                  path |-> "/users", conn |-> conns + 1]]
    /\ queries' = [queries EXCEPT ![r] = @ + 1]
    /\ UNCHANGED <<resp, pc, plugins, routes, port, db, cfgVars, writtenInFlight, dbVars>>

\* A `/users` handler that runs the query twice (a count, then the rows).
GetUsers_twoQueries(r) ==
    /\ Incoming(r)
    /\ Registered("GET", "/users")
    /\ req' = [req EXCEPT ![r] = [state |-> "querying", method |-> "GET",
                                  path |-> "/users", conn |-> db]]
    /\ queries' = [queries EXCEPT ![r] = @ + 2]
    /\ UNCHANGED <<resp, cfgVars, writtenInFlight, appVars, dbVars>>

\* A `/users` handler that records the visit in the table before it reads.
GetUsers_recordVisit(r) ==
    /\ Incoming(r)
    /\ Registered("GET", "/users")
    /\ req' = [req EXCEPT ![r] = [state |-> "querying", method |-> "GET",
                                  path |-> "/users", conn |-> db]]
    /\ queries' = [queries EXCEPT ![r] = @ + 1]
    /\ table' = table \cup {CHOOSE x \in Rows : \A y \in Rows : x <= y}
    /\ UNCHANGED <<resp, dbUp, cfgVars, writtenInFlight, appVars>>

\* Lines 9-10: GET /users -> the handler issues the read-all query on the
\* shared connection and awaits it.
GetUsers(r) ==
    /\ Incoming(r)
    /\ Registered("GET", "/users")
    /\ req' = [req EXCEPT ![r] = [state |-> "querying", method |-> "GET",
                                  path |-> "/users", conn |-> db]]
    /\ queries' = [queries EXCEPT ![r] = @ + 1]
    /\ UNCHANGED <<resp, cfgVars, writtenInFlight, appVars, dbVars>>

\* A handler that returns only the first row (a LIMIT 1).
QueryResolve_firstRow(r) ==
    /\ req[r].state = "querying"
    /\ dbUp
    /\ Responded(r, "GET", "/users",
                 JsonResponse(IF table = {} THEN {}
                              ELSE {CHOOSE x \in table : \A y \in table : x <= y}))
    /\ UNCHANGED <<queries, cfgVars, writtenInFlight, appVars, dbVars>>

\* A handler that keeps the rows of the last successful answer and serves
\* them again.
QueryResolve_cached(r) ==
    /\ req[r].state = "querying"
    /\ dbUp
    /\ Responded(r, "GET", "/users",
                 IF \E q \in Req : req[q].state = "responded" /\ req[q].path = "/users"
                                    /\ resp[q].status = 200
                 THEN resp[CHOOSE q \in Req : req[q].state = "responded"
                                               /\ req[q].path = "/users"
                                               /\ resp[q].status = 200]
                 ELSE JsonResponse(SelectAll(table)))
    /\ UNCHANGED <<queries, cfgVars, writtenInFlight, appVars, dbVars>>

\* A handler that appends the rows it reads to a list kept across
\* requests and returns the list.
QueryResolve_accumulating(r) ==
    /\ req[r].state = "querying"
    /\ dbUp
    /\ Responded(r, "GET", "/users",
                 JsonResponse(SelectAll(table) \cup
                     UNION {resp[q].rows : q \in {x \in Req : req[x].state = "responded"}}))
    /\ UNCHANGED <<queries, cfgVars, writtenInFlight, appVars, dbVars>>

\* Line 10, the awaited query answers with rows: the database reads the
\* table, the handler returns the rows and the framework sends them as JSON.
QueryResolve(r) ==
    /\ req[r].state = "querying"
    /\ dbUp
    /\ Responded(r, "GET", "/users", JsonResponse(SelectAll(table)))
    /\ UNCHANGED <<queries, cfgVars, writtenInFlight, appVars, dbVars>>

\* A handler that catches the failure and answers with an empty list.
QueryReject_caught(r) ==
    /\ req[r].state = "querying"
    /\ ~dbUp
    /\ Responded(r, "GET", "/users", JsonResponse({}))
    /\ UNCHANGED <<queries, cfgVars, writtenInFlight, appVars, dbVars>>

\* A handler that gives up on its own: it answers with the error while the
\* database has not answered.
QueryReject_timeout(r) ==
    /\ req[r].state = "querying"
    /\ Responded(r, "GET", "/users", ErrorResponse)
    /\ UNCHANGED <<queries, cfgVars, writtenInFlight, appVars, dbVars>>

\* Line 10, the awaited query fails: the rejection leaves the handler and
\* the framework answers with its default error response.
QueryReject(r) ==
    /\ req[r].state = "querying"
    /\ ~dbUp
    /\ Responded(r, "GET", "/users", ErrorResponse)
    /\ UNCHANGED <<queries, cfgVars, writtenInFlight, appVars, dbVars>>

\* Line 7: a documentation route registered by the plugin is served by it.
GetDocs(r, p) ==
    /\ Incoming(r)
    /\ p \in DocPaths
    /\ Registered("GET", p)
    /\ Responded(r, "GET", p, DocsResponse(p))
    /\ UNCHANGED <<queries, cfgVars, writtenInFlight, appVars, dbVars>>

\* Lines 6-12 register nothing else: any other method and path is answered
\* by the framework's not-found response.
NotFound(r, m, p) ==
    /\ Incoming(r)
    /\ ~Registered(m, p)
    /\ Responded(r, m, p, NotFoundResponse)
    /\ UNCHANGED <<queries, cfgVars, writtenInFlight, appVars, dbVars>>

\* -------------------------------------------------------------- environment
\* The users table is written only from outside the server.
ExternalInsert(x) ==
    /\ x \notin table
    /\ table' = table \cup {x}
    /\ UNCHANGED <<dbUp, cfgVars, writtenInFlight, appVars, reqVars>>

ExternalDelete(x) ==
    /\ x \in table
    /\ table' = table \ {x}
    /\ UNCHANGED <<dbUp, cfgVars, writtenInFlight, appVars, reqVars>>

\* The same writes, with the history kept: the requests whose query is
\* pending when the write lands are noted.
NoteWrite ==
    writtenInFlight' = [r \in Req |-> writtenInFlight[r] \/ req[r].state = "querying"]

NotedInsert(x) ==
    /\ x \notin table
    /\ table' = table \cup {x}
    /\ NoteWrite
    /\ UNCHANGED <<dbUp, cfgVars, appVars, reqVars>>

NotedDelete(x) ==
    /\ x \in table
    /\ table' = table \ {x}
    /\ NoteWrite
    /\ UNCHANGED <<dbUp, cfgVars, appVars, reqVars>>

\* The database becomes unreachable, or reachable again.
DbFails ==
    /\ dbUp
    /\ dbUp' = FALSE
    /\ UNCHANGED <<table, cfgVars, writtenInFlight, appVars, reqVars>>

DbRecovers ==
    /\ ~dbUp
    /\ dbUp' = TRUE
    /\ UNCHANGED <<table, cfgVars, writtenInFlight, appVars, reqVars>>

\* ----------------------------------------------------------- specifications
\* Server variables before the process has done anything.
AppIdle ==
    /\ pc = "start"
    /\ plugins = <<>>
    /\ routes = <<>>
    /\ port = 0
    /\ conns = 0
    /\ db = 0
    /\ req = [r \in Req |-> NoReq]
    /\ resp = [r \in Req |-> NoResp]
    /\ queries = [r \in Req |-> 0]
    /\ writtenInFlight = [r \in Req |-> FALSE]

\* The configuration module is evaluated in an arbitrary environment.
InitConfig ==
    /\ env \in Envs
    /\ url = NoUrl
    /\ config = NoConfig
    /\ cfgPc = "start"
    /\ AppIdle
    /\ table = {}
    /\ dbUp = TRUE

EnvNames == {"TURSO_DATABASE_URL", "TURSO_AUTH_TOKEN"}

NextConfig ==
    \/ EvalConfig
    \/ \E k \in EnvNames, v \in EnvValues : SetEnv(k, v)

SpecConfig == InitConfig /\ [][NextConfig]_vars

\* The server starts against a database in an arbitrary condition.
Init ==
    /\ env = [TURSO_DATABASE_URL |-> Undefined, TURSO_AUTH_TOKEN |-> Undefined]
    /\ url = NoUrl
    /\ config = NoConfig
    /\ cfgPc = "start"
    /\ AppIdle
    /\ table \in SUBSET Rows
    /\ dbUp \in BOOLEAN

Next ==
    \/ ImportModules
    \/ NewElysia
    \/ UseSwagger
    \/ RegisterRoot
    \/ RegisterUsers
    \/ Listen
    \/ \E r \in Req : GetRoot(r)
    \/ \E r \in Req : GetUsers(r)
    \/ \E r \in Req : QueryResolve(r)
    \/ \E r \in Req : QueryReject(r)
    \/ \E r \in Req, p \in DocPaths : GetDocs(r, p)
    \/ \E r \in Req, m \in Methods, p \in Paths : NotFound(r, m, p)
    \/ \E x \in Rows : ExternalInsert(x)
    \/ \E x \in Rows : ExternalDelete(x)
    \/ DbFails
    \/ DbRecovers

Spec == Init /\ [][Next]_vars

\* The server under a database that answers every query it is sent, with
\* rows or with a failure.
SpecLive ==
    /\ Init
    /\ [][Next]_vars
    /\ \A r \in Req : WF_vars(QueryResolve(r) \/ QueryReject(r))

\* Start-up alone, in an arbitrary environment.
InitStartup ==
    /\ env \in Envs
    /\ url = NoUrl
    /\ config = NoConfig
    /\ cfgPc = "start"
    /\ AppIdle
    /\ table \in SUBSET Rows
    /\ dbUp \in BOOLEAN

NextStartup ==
    \/ ImportModules
    \/ NewElysia
    \/ UseSwagger
    \/ RegisterRoot
    \/ RegisterUsers
    \/ Listen

SpecStartup == InitStartup /\ [][NextStartup]_vars

\* The server with the history of writes in flight kept.
NextWriter ==
    \/ ImportModules
    \/ NewElysia
    \/ UseSwagger
    \/ RegisterRoot
    \/ RegisterUsers
    \/ Listen
    \/ \E r \in Req : GetRoot(r)
    \/ \E r \in Req : GetUsers(r)
    \/ \E r \in Req : QueryResolve(r)
    \/ \E r \in Req : QueryReject(r)
    \/ \E r \in Req, p \in DocPaths : GetDocs(r, p)
    \/ \E r \in Req, m \in Methods, p \in Paths : NotFound(r, m, p)
    \/ \E x \in Rows : NotedInsert(x)
    \/ \E x \in Rows : NotedDelete(x)
    \/ DbFails
    \/ DbRecovers

SpecWriter == Init /\ [][NextWriter]_vars

\* ------------------------------------------------------------- properties
\* Vocabulary of the properties below.
StartsWith(s, pre) == Len(pre) <= Len(s) /\ SubSeq(s, 1, Len(pre)) = pre

EndsWith(s, suf) == Len(suf) <= Len(s) /\ SubSeq(s, Len(s) - Len(suf) + 1, Len(s)) = suf

HasAuthToken(s) ==
    \E i \in 1..Len(s) :
        /\ i + Len(AuthTokenParam) - 1 <= Len(s)
        /\ SubSeq(s, i, i + Len(AuthTokenParam) - 1) = AuthTokenParam

\* The step in which the configuration module is evaluated.
ConfigEvaluated == cfgPc = "start" /\ cfgPc' # "start"

IsGet(r, p) == req[r].method = "GET" /\ req[r].path = p

AppRoutes == SelectSeq(routes, LAMBDA x : x.by = "app")

\* C1: every GET request to `/` is answered with status 200 and the text
\* "Hello Elysia", whatever requests came before it.
C1_RootGreeting ==
    \A r \in Req :
        IsGet(r, "/") =>
            /\ req[r].state = "responded"
            /\ resp[r].status = 200
            /\ resp[r].text = "Hello Elysia"

\* A `/` request answered with the greeting next to another request that
\* was answered with something else.
C1_Witness ==
    \E r, q \in Req :
        /\ IsGet(r, "/") /\ resp[r].status = 200 /\ resp[r].text = "Hello Elysia"
        /\ req[q].state = "responded" /\ ~IsGet(q, "/")

\* C2: a GET `/users` request whose query succeeds is answered with status
\* 200 and a JSON array of exactly the rows the users table holds when the
\* query reads it, none filtered out; an empty table gives an empty array.
C2_UsersAllRows ==
    [][\A r \in Req :
          (req[r].state = "querying" /\ dbUp /\ req'[r].state = "responded") =>
              /\ resp'[r].status = 200
              /\ resp'[r].ctype = "application/json"
              /\ resp'[r].rows = table]_vars

\* One `/users` request answered with the empty array, another with every
\* row the writer can insert.
C2_Witness ==
    \E r, q \in Req :
        /\ IsGet(r, "/users") /\ resp[r].status = 200 /\ resp[r].rows = {}
        /\ IsGet(q, "/users") /\ resp[q].status = 200 /\ resp[q].rows = Rows

\* C3: with neither TURSO_DATABASE_URL nor TURSO_AUTH_TOKEN in the
\* environment, the evaluation completes and the connection string is
\* exactly file:local.db.
C3_NoEnvLocalFile ==
    [][(/\ ConfigEvaluated
        /\ ~env.TURSO_DATABASE_URL.defined
        /\ ~env.TURSO_AUTH_TOKEN.defined) =>
           (cfgPc' = "done" /\ url' = LocalDbUrl)]_vars

C3_Witness ==
    /\ cfgPc = "done"
    /\ ~env.TURSO_DATABASE_URL.defined
    /\ ~env.TURSO_AUTH_TOKEN.defined
    /\ url = LocalDbUrl

\* C4, as stated: with TURSO_DATABASE_URL set and TURSO_AUTH_TOKEN not set,
\* the connection string is exactly the value of TURSO_DATABASE_URL, with no
\* auth-token parameter.
C4_Original ==
    [][(/\ ConfigEvaluated
        /\ env.TURSO_DATABASE_URL.defined
        /\ ~env.TURSO_AUTH_TOKEN.defined) =>
           (url' = env.TURSO_DATABASE_URL.val /\ ~HasAuthToken(url'))]_vars

\* C4, amended: the same when TURSO_DATABASE_URL is set to a non-empty
\* string.
C4_UrlWithoutToken ==
    [][(/\ ConfigEvaluated
        /\ env.TURSO_DATABASE_URL.defined
        /\ env.TURSO_DATABASE_URL.val # <<>>
        /\ ~env.TURSO_AUTH_TOKEN.defined) =>
           (url' = env.TURSO_DATABASE_URL.val /\ ~HasAuthToken(url'))]_vars

C4_Witness ==
    /\ cfgPc = "done"
    /\ env.TURSO_DATABASE_URL.defined
    /\ env.TURSO_DATABASE_URL.val # <<>>
    /\ ~env.TURSO_AUTH_TOKEN.defined
    /\ url = env.TURSO_DATABASE_URL.val

\* C5, as stated: with both variables set, the connection string is the
\* remote URL and includes ?authToken=<token> with the token's value.
C5_Original ==
    [][(/\ ConfigEvaluated
        /\ env.TURSO_DATABASE_URL.defined
        /\ env.TURSO_AUTH_TOKEN.defined) =>
           (/\ StartsWith(url', env.TURSO_DATABASE_URL.val)
            /\ EndsWith(url', AuthTokenParam \o env.TURSO_AUTH_TOKEN.val))]_vars

\* C5, amended: the same when both variables are set to non-empty strings.
C5_UrlWithToken ==
    [][(/\ ConfigEvaluated
        /\ env.TURSO_DATABASE_URL.defined
        /\ env.TURSO_DATABASE_URL.val # <<>>
        /\ env.TURSO_AUTH_TOKEN.defined
        /\ env.TURSO_AUTH_TOKEN.val # <<>>) =>
           (/\ StartsWith(url', env.TURSO_DATABASE_URL.val)
            /\ EndsWith(url', AuthTokenParam \o env.TURSO_AUTH_TOKEN.val))]_vars

C5_Witness ==
    /\ cfgPc = "done"
    /\ env.TURSO_DATABASE_URL.defined /\ env.TURSO_DATABASE_URL.val # <<>>
    /\ env.TURSO_AUTH_TOKEN.defined /\ env.TURSO_AUTH_TOKEN.val # <<>>
    /\ StartsWith(url, env.TURSO_DATABASE_URL.val)
    /\ EndsWith(url, AuthTokenParam \o env.TURSO_AUTH_TOKEN.val)

\* C6: with TURSO_DATABASE_URL absent the connection string is
\* file:local.db for every value of TURSO_AUTH_TOKEN; a token without a URL
\* is never appended.
C6_TokenAloneIgnored ==
    [][(ConfigEvaluated /\ ~env.TURSO_DATABASE_URL.defined) =>
           (url' = LocalDbUrl /\ ~HasAuthToken(url'))]_vars

C6_Witness ==
    /\ cfgPc = "done"
    /\ ~env.TURSO_DATABASE_URL.defined
    /\ Truthy(env.TURSO_AUTH_TOKEN)
    /\ url = LocalDbUrl

\* C7: a GET `/` request cannot fail: in whatever state it arrives, database
\* unreachable and `/users` queries pending or failed included, it is
\* answered in the same step with the fixed string and never with an error.
C7_RootNeverFails ==
    [][\A r \in Req :
          (req[r].state = "none" /\ req'[r].method = "GET" /\ req'[r].path = "/") =>
              /\ req'[r].state = "responded"
              /\ resp'[r] = TextResponse(Greeting)]_vars

\* The database is down, a `/users` request has failed with it, and a `/`
\* request has its greeting.
C7_Witness ==
    \E r, q \in Req :
        /\ ~dbUp
        /\ IsGet(q, "/users") /\ resp[q].status = 500
        /\ IsGet(r, "/") /\ resp[r] = TextResponse(Greeting)

\* C8: when the read-all query of a GET `/users` request fails, the request
\* ends with the framework's error response: no row array is returned, and
\* the query was issued once and is not issued again.
C8_QueryFailurePropagates ==
    [][\A r \in Req :
          (req[r].state = "querying" /\ ~dbUp /\ req'[r] # req[r]) =>
              /\ req'[r].state = "responded"
              /\ resp'[r].status = 500
              /\ resp'[r].ctype # "application/json"
              /\ queries'[r] = 1]_vars

C8_Witness ==
    \E r \in Req :
        /\ IsGet(r, "/users")
        /\ req[r].state = "responded"
        /\ resp[r] = ErrorResponse
        /\ queries[r] = 1

\* C9, as stated: by the time the port is bound, a logging middleware plugin
\* and then three HTTP handlers have been registered on the application.
C9_Original ==
    Listening => (plugins = <<"logger">> /\ Len(AppRoutes) = 3)

\* C9, amended: start-up is linear: the application is constructed, then the
\* documentation plugin is registered, then the two handlers GET / and GET
\* /users, and only then is the port bound; no request is accepted before
\* the plugin and both handlers are registered.
C9_StartupOrder ==
    /\ plugins # <<>> => pc \notin {"start", "imported"}
    /\ AppRoutes # <<>> => plugins = <<"swagger">>
    /\ Len(AppRoutes) >= 1 => AppRoutes[1] = Route("GET", "/", "app")
    /\ Listening =>
          /\ plugins = <<"swagger">>
          /\ AppRoutes = <<Route("GET", "/", "app"), Route("GET", "/users", "app")>>
    /\ \A r \in Req : req[r].state # "none" =>
          /\ Listening
          /\ Registered("GET", "/") /\ Registered("GET", "/users")
          /\ \A p \in DocPaths : Registered("GET", p)

C9_Witness ==
    /\ Listening
    /\ pc = "listening"
    /\ \E r \in Req : req[r].state # "none"

\* C10: one database connection object is constructed, at process start;
\* every `/users` request uses that object and handling a request constructs
\* none.
C10_OneConnection ==
    /\ conns <= 1
    /\ pc # "start" => (conns = 1 /\ db = 1)
    /\ \A r \in Req : IsGet(r, "/users") => (req[r].conn = db /\ db = 1)

\* Two `/users` requests, one of them answered, on the one connection.
C10_Witness ==
    /\ conns = 1
    /\ \E r, q \in Req :
          /\ r # q
          /\ IsGet(r, "/users") /\ req[r].conn = db /\ req[r].state = "responded"
          /\ IsGet(q, "/users") /\ req[q].conn = db

\* The response the framework gives to a request of method m and path p
\* whose query, if it makes one, finds the database reachable or not
\* (up) and the users table holding t.
ExpectedResponse(m, p, t, up) ==
    IF m = "GET" /\ p = "/" THEN TextResponse("Hello Elysia")
    ELSE IF m = "GET" /\ p = "/users"
         THEN IF up THEN JsonResponse(t) ELSE ErrorResponse
    ELSE IF m = "GET" /\ p \in DocPaths THEN DocsResponse(p)
    ELSE NotFoundResponse

\* The step in which request r gets its response.
Answered(r) == req[r].state # "responded" /\ req'[r].state = "responded"

\* C11, as stated: the response to a request depends only on its route and
\* on the users-table contents at the time of its query: a request answered
\* now gets the response an earlier request of the same route got, when
\* that one's query read the table as it is now.
C11_Original ==
    [][\A r, q \in Req :
          (/\ r # q
           /\ Answered(r)
           /\ req[q].state = "responded"
           /\ req[q].method = req'[r].method
           /\ req[q].path = req'[r].path
           /\ (IsGet(q, "/users") => resp[q] = JsonResponse(table))) =>
              resp'[r] = resp[q]]_vars

\* C11, amended: the response to a request is a fixed function of its
\* route and, for `/users`, of whether its query succeeds and of the
\* users-table contents at the time of the query; it does not depend on
\* the requests handled before it or in flight with it, and it does not
\* change afterwards.
C11_Stateless ==
    [][\A r \in Req :
          /\ Answered(r) =>
                resp'[r] = ExpectedResponse(req'[r].method, req'[r].path, table, dbUp)
          /\ req[r].state = "responded" => (resp'[r] = resp[r] /\ req'[r] = req[r])]_vars

\* Two `/users` requests answered one after the other with the same
\* non-empty table contents.
C11_Witness ==
    \E r, q \in Req :
        /\ r # q
        /\ IsGet(r, "/users") /\ IsGet(q, "/users")
        /\ resp[r] = JsonResponse(Rows)
        /\ resp[q] = resp[r]

\* C12: the server registers the documentation plugin, whose routes are
\* served with status 200 and which describes exactly the two routes GET /
\* and GET /users.
C12_DocsCoverBothRoutes ==
    /\ Listening =>
          /\ \E i \in DOMAIN plugins : plugins[i] = "swagger"
          /\ \A p \in DocPaths :
                \E i \in DOMAIN routes : routes[i] = Route("GET", p, "swagger")
          /\ Documented = {[method |-> "GET", path |-> "/"],
                           [method |-> "GET", path |-> "/users"]}
    /\ \A r \in Req :
          (req[r].method = "GET" /\ req[r].path \in DocPaths) =>
              (resp[r].status = 200 /\ resp[r].ctype = "docs")

C12_Witness ==
    /\ Cardinality(Documented) = 2
    /\ \E r \in Req :
          /\ IsGet(r, "/swagger")
          /\ req[r].state = "responded"
          /\ resp[r].status = 200

\* C13: whatever TURSO_DATABASE_URL and TURSO_AUTH_TOKEN hold, the only
\* port the server ever binds is 3000, and it is bound once start-up is
\* through.
C13_FixedPort ==
    /\ port \in {0, 3000}
    /\ pc = "listening" => port = 3000

\* Start-up finished on port 3000 with a remote URL and a token set.
C13_Witness ==
    /\ pc = "listening"
    /\ port = 3000
    /\ Truthy(env.TURSO_DATABASE_URL)
    /\ Truthy(env.TURSO_AUTH_TOKEN)

RECURSIVE SumQueries(_)
SumQueries(S) ==
    IF S = {} THEN 0
    ELSE LET r == CHOOSE x \in S : TRUE IN queries[r] + SumQueries(S \ {r})

\* C14: a GET `/users` request issues exactly one read-all query and any
\* other request none, so the queries issued number the GET `/users`
\* requests handled.
C14_OneQueryPerUsersRequest ==
    /\ \A r \in Req : queries[r] = IF IsGet(r, "/users") THEN 1 ELSE 0
    /\ SumQueries(Req) = Cardinality({r \in Req : IsGet(r, "/users")})

\* One `/users` request and one other request handled, one query issued.
C14_Witness ==
    \E r, q \in Req :
        /\ IsGet(r, "/users") /\ req[r].state = "responded"
        /\ req[q].state = "responded" /\ ~IsGet(q, "/users")
        /\ SumQueries(Req) = 1

\* C15: no step of a request handler changes the users table: whenever a
\* request arrives, issues its query or is answered, with rows or with an
\* error, the table is left as it was.
C15_HandlersNeverWrite ==
    [][(req' # req \/ resp' # resp \/ queries' # queries) => table' = table]_vars

\* A `/users` request answered with rows and another with an error, the
\* table still holding rows.
C15_Witness ==
    \E r, q \in Req :
        /\ IsGet(r, "/users") /\ resp[r].status = 200
        /\ IsGet(q, "/users") /\ resp[q].status = 500
        /\ table # {}

\* C16: a pending `/users` query blocks nothing: while one is pending, an
\* arriving GET / and an arriving GET /users can be handled, and another
\* pending `/users` request can be answered.
C16_PendingQueryBlocksNothing ==
    \A q \in Req :
        req[q].state = "querying" =>
            \A r \in Req \ {q} :
                /\ req[r].state = "none" =>
                      (ENABLED GetRoot(r) /\ ENABLED GetUsers(r))
                /\ req[r].state = "querying" =>
                      ENABLED (QueryResolve(r) \/ QueryReject(r))

\* A `/users` request answered while the query of another is pending.
C16_Witness ==
    \E r, q \in Req :
        /\ IsGet(q, "/users") /\ req[q].state = "querying"
        /\ IsGet(r, "/users") /\ req[r].state = "responded"

\* C17: once the configuration module has been evaluated, the resolved URL
\* never changes again, whatever is done to the two variables.
C17_ResolvedOnce ==
    [][cfgPc = "done" => (cfgPc' = "done" /\ url' = url)]_vars

\* The URL variable was set after the evaluation; the resolved URL is still
\* the local file.
C17_Witness ==
    /\ cfgPc = "done"
    /\ Truthy(env.TURSO_DATABASE_URL)
    /\ url = LocalDbUrl

\* C18: when the database answers every query, every GET `/users` request
\* is eventually answered; and a pending request is answered by nothing
\* but the database's answer: rows when it is reachable, the error when it
\* is not.
C18_AnsweredWhenDbAnswers ==
    /\ \A r \in Req : (req[r].state = "querying") ~> (req[r].state = "responded")
    /\ [][\A r \in Req :
             (req[r].state = "querying" /\ req'[r].state # "querying") =>
                 \/ dbUp /\ resp'[r] = JsonResponse(table)
                 \/ ~dbUp /\ resp'[r] = ErrorResponse]_vars

\* Both requests were `/users` requests and both have been answered.
C18_Witness ==
    \A r \in Req : IsGet(r, "/users") /\ req[r].state = "responded"

\* C19: a variable set to the empty string counts as absent: an empty
\* TURSO_DATABASE_URL gives file:local.db even with a non-empty token, and
\* an empty TURSO_AUTH_TOKEN with a non-empty URL gives the URL with no
\* ?authToken= suffix.
C19_EmptyIsAbsent ==
    [][ConfigEvaluated =>
          /\ env.TURSO_DATABASE_URL = Defined(<<>>) => url' = LocalDbUrl
          /\ (/\ env.TURSO_DATABASE_URL.defined
              /\ env.TURSO_DATABASE_URL.val # <<>>
              /\ env.TURSO_AUTH_TOKEN = Defined(<<>>)) =>
                 (url' = env.TURSO_DATABASE_URL.val
                  /\ ~EndsWith(url', AuthTokenParam))]_vars

C19_Witness ==
    /\ cfgPc = "done"
    /\ env.TURSO_DATABASE_URL = Defined(<<>>)
    /\ env.TURSO_AUTH_TOKEN.defined /\ env.TURSO_AUTH_TOKEN.val # <<>>
    /\ url = LocalDbUrl

CountChar(s, c) == Cardinality({i \in DOMAIN s : s[i] = c})

\* C20: for non-empty URL u and non-empty token t the connection string is
\* exactly u, then ?authToken=, then t, character for character; a "?"
\* already in u is kept, so the result then has at least two.
C20_VerbatimConcatenation ==
    [][(/\ ConfigEvaluated
        /\ env.TURSO_DATABASE_URL.defined /\ env.TURSO_DATABASE_URL.val # <<>>
        /\ env.TURSO_AUTH_TOKEN.defined /\ env.TURSO_AUTH_TOKEN.val # <<>>) =>
           LET u == env.TURSO_DATABASE_URL.val
               t == env.TURSO_AUTH_TOKEN.val
           IN  /\ url' = u \o <<"?", "a", "u", "t", "h", "T", "o", "k", "e", "n", "=">> \o t
               /\ CountChar(url', "?") = CountChar(u, "?") + 1 + CountChar(t, "?")
               /\ CountChar(u, "?") >= 1 => CountChar(url', "?") >= 2]_vars

\* A URL with one "?" and a token with none resolved to a string with two.
C20_Witness ==
    /\ cfgPc = "done"
    /\ CountChar(env.TURSO_DATABASE_URL.val, "?") = 1
    /\ env.TURSO_AUTH_TOKEN.val # <<>>
    /\ CountChar(env.TURSO_AUTH_TOKEN.val, "?") = 0
    /\ url = env.TURSO_DATABASE_URL.val \o AuthTokenParam \o env.TURSO_AUTH_TOKEN.val
    /\ CountChar(url, "?") = 2

\* C22: whatever the two variables hold, the evaluated configuration has
\* dialect sqlite, schema ./src/db/schema.ts and output directory ./drizzle;
\* its dbCredentials.url is the resolved connection string, the one field
\* that differs between environments.
C22_OnlyUrlVaries ==
    /\ cfgPc = "start" => config = NoConfig
    /\ cfgPc = "done" =>
          /\ config.dialect = "sqlite"
          /\ config.schema = "./src/db/schema.ts"
          /\ config.out = "./drizzle"
          /\ config.dbCredentials.url = url
          /\ DOMAIN config = {"schema", "out", "dialect", "dbCredentials"}
          /\ DOMAIN config.dbCredentials = {"url"}

\* A configuration evaluated with a remote URL and a token: the url field
\* is not the local file, the dialect is still sqlite.
C22_Witness ==
    /\ cfgPc = "done"
    /\ config.dialect = "sqlite"
    /\ config.dbCredentials.url # LocalDbUrl
    /\ HasAuthToken(config.dbCredentials.url)

\* C21: a GET `/users` request whose query was pending while the external
\* writer changed the table, and which is answered with rows, is answered
\* with the full contents the table has at one moment, that of the read,
\* after the request's arrival and not after its response: never with rows
\* of an earlier and of a later state of the table together.
C21_RowsOfOneTableState ==
    [][\A r \in Req :
          (/\ Answered(r)
           /\ writtenInFlight[r]
           /\ req'[r].method = "GET" /\ req'[r].path = "/users"
           /\ resp'[r].status = 200) =>
              /\ req[r].state = "querying"
              /\ resp'[r].rows = table
              /\ table' = table]_vars

\* A `/users` request answered with rows after the table was written while
\* its query was pending.
C21_Witness ==
    \E r \in Req :
        /\ IsGet(r, "/users")
        /\ req[r].state = "responded"
        /\ writtenInFlight[r]
        /\ resp[r].status = 200
        /\ resp[r].rows # {}

====
